---- MODULE Spec2Model ----
(***************************************************************************)
(* A model of DatabaseManager (src/scaler.py): a facade over a PostgreSQL  *)
(* client library holding one stored connection and one stored cursor.     *)
(*                                                                         *)
(* The program's state is the pair (self.connection, self.cursor).  The    *)
(* client library and the server are modelled by what the facade can       *)
(* observe of them: the connections and cursors opened so far (which       *)
(* database, open or closed, uncommitted work) and the committed rows of   *)
(* one table per session database.  Whether a driver call succeeds         *)
(* (connect, cursor, execute, commit) is an input of each call.            *)
(***************************************************************************)
EXTENDS Integers, Sequences, FiniteSets, TLC

\* ------------------------------------------------------------- bounds
MaxConns == 2     \* the server accepts this many connections in all
MaxRows == 1      \* ids the tracked table's SERIAL column can hand out

\* ------------------------------------------------------------- names
\* A name is a sequence of one-character strings, so that quoting is
\* something the model computes.
None == 0
DQ == "\""
SQ == "'"
SEMI == ";"
MetaChars == {DQ, SQ, SEMI}

Postgres == <<"postgres">>
DbA == <<"A">>
DbB == <<"B">>
SessionDbs == {DbA, DbB}

TrackedTable == <<"t">>
ColA == <<"a">>
ColB == <<"b">>
Null == <<"NULL">>

HasMeta(name) == \E i \in 1..Len(name) : name[i] \in MetaChars

\* ------------------------------------------------------------- SQL text
RECURSIVE Escape(_, _)
Escape(s, q) ==
    IF s = <<>> THEN <<>>
    ELSE (IF Head(s) = q THEN <<q, q>> ELSE <<Head(s)>>) \o Escape(Tail(s), q)

\* sql.Identifier: double quotes around the name, embedded ones doubled
Identifier(name) == <<DQ>> \o Escape(name, DQ) \o <<DQ>>

\* sql.Literal and the adaptation of a %s parameter: a quoted string
Literal(v) == <<SQ>> \o Escape(v, SQ) \o <<SQ>>

\* a row id is an integer: adapted as its digits
IdText(i) == <<ToString(i)>>

RECURSIVE Join(_, _)
Join(parts, sep) ==
    IF parts = <<>> THEN <<>>
    ELSE IF Len(parts) = 1 THEN parts[1]
    ELSE parts[1] \o sep \o Join(Tail(parts), sep)

\* cursor.execute(query, params): each %s replaced, in order, by the
\* adapted parameter
RECURSIVE Mogrify(_, _)
Mogrify(q, params) ==
    IF q = <<>> THEN <<>>
    ELSE IF Head(q) = "%s" /\ params # <<>>
         THEN Head(params) \o Mogrify(Tail(q), Tail(params))
         ELSE <<Head(q)>> \o Mogrify(Tail(q), params)

Keys(m) == [i \in 1..Len(m) |-> m[i][1]]
Values(m) == [i \in 1..Len(m) |-> m[i][2]]

create_db_query(dbname) == <<"CREATE DATABASE ">> \o dbname

list_databases_query == <<"SELECT datname FROM pg_database WHERE datistemplate = false;">>

create_table_query(table_name, columns) ==
    IF columns # <<>>
    THEN <<"CREATE TABLE ">> \o Identifier(table_name) \o <<" (">>
         \o Join([i \in 1..Len(columns) |-> columns[i][1] \o <<" ">> \o columns[i][2]],
                 <<", ">>)
         \o <<")">>
    ELSE <<"CREATE TABLE ">> \o Identifier(table_name) \o <<" ()">>

add_column_query(table_name, column_name, column_type) ==
    <<"ALTER TABLE ">> \o Identifier(table_name) \o <<" ADD COLUMN ">>
    \o Identifier(column_name) \o <<" ">> \o column_type

insert_query(table_name, column_values) ==
    <<"INSERT INTO ">> \o Identifier(table_name) \o <<" (">>
    \o Join([i \in 1..Len(column_values) |-> Identifier(Keys(column_values)[i])], <<", ">>)
    \o <<") VALUES (">>
    \o Join([i \in 1..Len(column_values) |-> Literal(Values(column_values)[i])], <<", ">>)
    \o <<")">>

delete_query(table_name, row_id) ==
    Mogrify(<<"DELETE FROM ">> \o Identifier(table_name) \o <<" WHERE id = ", "%s">>,
            <<IdText(row_id)>>)

update_query(table_name, row_id, update_data) ==
    Mogrify(<<"UPDATE ">> \o Identifier(table_name) \o <<" SET ">>
            \o Join([i \in 1..Len(update_data) |-> Keys(update_data)[i] \o <<" = ", "%s">>],
                    <<", ">>)
            \o <<" WHERE id = ", "%s">>,
            [i \in 1..Len(update_data) |-> Literal(Values(update_data)[i])]
            \o <<IdText(row_id)>>)

\* How the server reads a statement: a metacharacter counts as text only
\* inside a quoted identifier or a quoted literal.  mode is "out", "dq" or
\* "sq".  A statement is injection free when no semicolon stands outside
\* quotes and every quote is closed.
RECURSIVE ScanOK(_, _)
ScanOK(s, mode) ==
    IF s = <<>> THEN mode = "out"
    ELSE LET c == Head(s) IN
         CASE mode = "out" /\ c = DQ -> ScanOK(Tail(s), "dq")
           [] mode = "out" /\ c = SQ -> ScanOK(Tail(s), "sq")
           [] mode = "out" /\ c = SEMI -> FALSE
           [] mode = "dq" /\ c = DQ -> ScanOK(Tail(s), "out")
           [] mode = "sq" /\ c = SQ -> ScanOK(Tail(s), "out")
           [] OTHER -> ScanOK(Tail(s), mode)

InjectionFree(stmt) == ScanOK(stmt, "out")

\* ------------------------------------------------------------- state
VARIABLES
    connection,   \* self.connection: None or the id of a connection
    cursor,       \* self.cursor: None or the id of a cursor
    conns,        \* every connection opened so far, by id
    cursors,      \* every cursor created so far, by id
    srv,          \* the server: committed rows of the tracked table, per database
    last,         \* what the last completed call did
    pc,           \* concurrent callers: where each caller stands in its call
    call          \* concurrent callers: the call each caller is making

vars == <<connection, cursor, conns, cursors, srv, last, pc, call>>

\* the facade and what it talks to, as one value the handlers transform
World == [connection |-> connection, cursor |-> cursor, conns |-> conns,
          cursors |-> cursors, srv |-> srv]

\* ------------------------------------------------------------- server
NoRow == [present |-> FALSE, a |-> Null, b |-> Null]
EmptyTable == [rows |-> [i \in 1..MaxRows |-> NoRow], nextid |-> 1]

NoEff == [kind |-> "none", id |-> 0, vals |-> <<>>]

HasKey(m, k) == \E i \in 1..Len(m) : m[i][1] = k
Lookup(m, k, default) ==
    IF HasKey(m, k) THEN m[CHOOSE i \in 1..Len(m) : m[i][1] = k][2] ELSE default

\* The uncommitted work of a connection: for each row id, whether the
\* connection's transaction has written it and what it wrote (NoRow for a
\* deleted row).
NoWork == [i \in 1..MaxRows |-> [set |-> FALSE, row |-> NoRow]]

\* the row a statement run on a connection sees: its own write, else the
\* committed row
Visible(tbl, work, id) == IF work[id].set THEN work[id].row ELSE tbl.rows[id]

\* the effect of one statement on the work of the connection it runs on
ApplyEff(tbl, work, e) ==
    CASE e.kind = "ins" ->
           [work EXCEPT ![e.id] =
               [set |-> TRUE,
                row |-> [present |-> TRUE, a |-> Lookup(e.vals, ColA, Null),
                         b |-> Lookup(e.vals, ColB, Null)]]]
      [] e.kind = "upd" /\ e.id \in 1..MaxRows /\ Visible(tbl, work, e.id).present ->
           [work EXCEPT ![e.id] =
               [set |-> TRUE,
                row |-> [present |-> TRUE,
                         a |-> Lookup(e.vals, ColA, Visible(tbl, work, e.id).a),
                         b |-> Lookup(e.vals, ColB, Visible(tbl, work, e.id).b)]]]
      [] e.kind = "del" /\ e.id \in 1..MaxRows /\ Visible(tbl, work, e.id).present ->
           [work EXCEPT ![e.id] = [set |-> TRUE, row |-> NoRow]]
      [] OTHER -> work

\* commit: the written rows become the committed ones
Committed(tbl, work) ==
    [tbl EXCEPT !.rows = [i \in 1..MaxRows |-> Visible(tbl, work, i)]]

\* ------------------------------------------------------------- driver
\* psycopg2.connect(dbname=...): a new open connection
Connect(cs, dbname, kind) ==
    Append(cs, [db |-> dbname, kind |-> kind, open |-> TRUE, pending |-> NoWork])

\* connection.cursor(): a new cursor bound to connection c
NewCursor(cu, c) == Append(cu, [conn |-> c, closed |-> FALSE])

\* cursor.close(): closing a closed cursor is allowed
CursorClose(cu, k) == [cu EXCEPT ![k].closed = TRUE]

\* connection.close(): uncommitted work is rolled back; closing twice is allowed
ConnClose(cs, c) == [cs EXCEPT ![c].open = FALSE, ![c].pending = NoWork]

\* self.cursor.execute(query): runs on the connection the stored cursor
\* was created from.  status: "deref" (the stored cursor is None),
\* "error" (the driver or the server raised) or "ok".  sentOn is the
\* connection the statement reached the server on, 0 when it did not.
ExecStep(w, eff, ok) ==
    IF w.cursor = None
    THEN [w |-> w, status |-> "deref", sentOn |-> 0]
    ELSE LET k == w.cursor
             c == w.cursors[k].conn
             db == w.conns[c].db
             usable == ~w.cursors[k].closed /\ w.conns[c].open
             tracked == eff.kind \in {"ins", "upd", "del"} /\ db \in SessionDbs
             full == tracked /\ eff.kind = "ins" /\ w.srv[db].nextid > MaxRows
         IN  IF ~usable
             THEN [w |-> w, status |-> "error", sentOn |-> 0]
             ELSE IF ~ok \/ eff.kind = "syntax" \/ full
             THEN [w |-> w, status |-> "error", sentOn |-> c]
             ELSE IF ~tracked
             THEN [w |-> w, status |-> "ok", sentOn |-> c]
             ELSE LET e == IF eff.kind = "ins"
                           THEN [eff EXCEPT !.id = w.srv[db].nextid] ELSE eff
                  IN  [w |-> [w EXCEPT
                                 !.conns[c].pending = ApplyEff(w.srv[db], @, e),
                                 !.srv[db].nextid =
                                     IF eff.kind = "ins" THEN @ + 1 ELSE @],
                       status |-> "ok", sentOn |-> c]

\* self.connection.commit(): commits the stored connection's own work
CommitStep(w, ok) ==
    IF w.connection = None
    THEN [w |-> w, status |-> "deref", on |-> 0]
    ELSE LET c == w.connection
             db == w.conns[c].db
         IN  IF ~w.conns[c].open \/ ~ok
             THEN [w |-> w, status |-> "error", on |-> 0]
             ELSE [w |-> [w EXCEPT
                            !.srv = IF db \in SessionDbs
                                    THEN [@ EXCEPT ![db] = Committed(@, w.conns[c].pending)]
                                    ELSE @,
                            !.conns[c].pending = NoWork],
                   status |-> "ok", on |-> c]

\* ------------------------------------------------------------- handlers
\* switch_database, first statement: self.connection = psycopg2.connect(...)
StoreConnection(w, dbname) ==
    [w EXCEPT !.conns = Connect(@, dbname, "session"),
              !.connection = Len(w.conns) + 1]

\* switch_database, second statement: self.cursor = self.connection.cursor()
StoreCursor(w) ==
    [w EXCEPT !.cursors = NewCursor(@, w.connection),
              !.cursor = Len(w.cursors) + 1]

\* switch_database as a whole; an exception ends it where it is raised
SwitchDatabaseW(w, dbname, connOk, curOk) ==
    IF ~connOk THEN w
    ELSE IF ~curOk THEN StoreConnection(w, dbname)
    ELSE StoreCursor(StoreConnection(w, dbname))

SwitchOk(connOk, curOk) == connOk /\ curOk

\* the execute and commit statements that end every session-scoped handler
RunStatement(w, eff, execOk, commitOk) ==
    LET e == ExecStep(w, eff, execOk) IN
    IF e.status # "ok"
    THEN [w |-> e.w, outcome |-> "caught", deref |-> e.status = "deref",
          sentOn |-> e.sentOn, ran |-> FALSE, commitOn |-> 0]
    ELSE LET c == CommitStep(e.w, commitOk) IN
         [w |-> c.w, outcome |-> IF c.status = "ok" THEN "ok" ELSE "caught",
          deref |-> c.status = "deref",
          sentOn |-> e.sentOn, ran |-> TRUE, commitOn |-> c.on]

\* add_column, insert_row, delete_row, update_row: switch, then run
RowOp(w, dbname, eff, connOk, curOk, execOk, commitOk) ==
    RunStatement(SwitchDatabaseW(w, dbname, connOk, curOk), eff, execOk, commitOk)

\* create_table: the guard, then run on the stored pair
CreateTableW(w, execOk, commitOk) ==
    IF w.connection = None \/ w.cursor = None
    THEN [w |-> w, outcome |-> "not_connected", deref |-> FALSE,
          sentOn |-> 0, ran |-> FALSE, commitOn |-> 0]
    ELSE RunStatement(w, NoEff, execOk, commitOk)

\* the finally block of create_database and list_databases.  lconn and lcur
\* are the local variables connection and cursor: the empty set while
\* unbound, else the singleton of the id bound to them.  Reading an unbound
\* local raises, and the statements after it do not run.
Finally(w, lconn, lcur) ==
    IF lcur = {}
    THEN [w |-> w, raised |-> TRUE]
    ELSE LET k == CHOOSE x \in lcur : TRUE
             w1 == [w EXCEPT !.cursors = CursorClose(@, k)]
         IN  IF lconn = {}
             THEN [w |-> w1, raised |-> TRUE]
             ELSE [w |-> [w1 EXCEPT !.conns = ConnClose(@, CHOOSE x \in lconn : TRUE)],
                   raised |-> FALSE]

\* create_database and list_databases: a connection to the maintenance
\* database held in local variables, the statement, then the finally
\* block.  execOk stands for every statement after the cursor is created
\* (execute, fetchall); setting autocommit is taken to succeed.
MaintOp(w, connOk, curOk, execOk) ==
    LET n == Len(w.conns) + 1
        k == Len(w.cursors) + 1
        lconn == IF connOk THEN {n} ELSE {}
        lcur == IF connOk /\ curOk THEN {k} ELSE {}
        w1 == IF connOk THEN [w EXCEPT !.conns = Connect(@, Postgres, "maint")] ELSE w
        w2 == IF connOk /\ curOk THEN [w1 EXCEPT !.cursors = NewCursor(@, n)] ELSE w1
        f == Finally(w2, lconn, lcur)
    IN  [w |-> f.w,
         outcome |-> IF f.raised THEN "raised"
                     ELSE IF connOk /\ curOk /\ execOk THEN "ok" ELSE "caught",
         deref |-> FALSE,
         sentOn |-> IF connOk /\ curOk THEN n ELSE 0,
         ran |-> connOk /\ curOk /\ execOk,
         commitOn |-> 0]

\* close_connection without its two guards: closes whatever is stored
CloseUnguarded(w) ==
    LET w1 == IF w.cursor # None
              THEN [w EXCEPT !.cursors = CursorClose(@, w.cursor)] ELSE w
        w2 == IF w.connection # None
              THEN [w1 EXCEPT !.conns = ConnClose(@, w.connection)] ELSE w1
    IN  [w |-> w2, fault |-> w.cursor = None \/ w.connection = None]

\* close_connection.  fault: an unset connection or cursor was dereferenced.
CloseW(w) ==
    LET w1 == IF w.cursor # None
              THEN [w EXCEPT !.cursors = CursorClose(@, w.cursor)] ELSE w
        w2 == IF w.connection # None
              THEN [w1 EXCEPT !.conns = ConnClose(@, w.connection)] ELSE w1
    IN  [w |-> w2, fault |-> FALSE]

\* ------------------------------------------------------------- inputs
\* whether a driver call succeeds.  The server refuses a connection once
\* MaxConns have been opened; a step that follows a failed one never runs.
ConnectChoices == IF Len(conns) < MaxConns THEN BOOLEAN ELSE {FALSE}
After(ok) == IF ok THEN BOOLEAN ELSE {FALSE}

TypeInt == <<"INTEGER">>
Val1 == <<"1">>
Val2 == <<"2">>

\* An input set: the names and mappings the calls of one specification
\* are made with.
PlainTable == <<"u">>
PlainDb == <<"n">>
Columns(cs) == {<<>>} \cup {<< <<c, TypeInt>> >> : c \in cs}

\* plain names, a table the model keeps no rows of
PlainInputs ==
    [dbs |-> {PlainDb}, tables |-> {PlainTable}, columns |-> {ColA},
     inserts |-> {<<>>, << <<ColA, Val1>> >>},
     updates |-> {<<>>, << <<ColA, Val1>> >>},
     ids |-> {1}]

\* names holding SQL metacharacters beside plain ones
MetaInputs ==
    [dbs |-> {PlainDb, <<"n", SEMI>>}, tables |-> {PlainTable, <<"u", DQ>>},
     columns |-> {ColA, <<"a", SEMI>>},
     inserts |-> {<< <<ColA, Val1>> >>, << <<<<"a", SEMI>>, Val1>> >>},
     updates |-> {<< <<ColA, Val1>> >>, << <<<<"a", SEMI>>, Val1>> >>},
     ids |-> {1}]

\* the tracked table, whose rows the model keeps
RowInputs ==
    [dbs |-> {PlainDb}, tables |-> {TrackedTable}, columns |-> {ColA},
     inserts |-> {<< <<ColA, Val1>> >>},
     updates |-> {<< <<ColA, Val2>> >>, << <<ColB, Val2>> >>},
     ids |-> 1..MaxRows]

PlainKeys(m) == \A i \in 1..Len(m) : m[i][1] \in {ColA, ColB}
MetaKeys(m) == \E i \in 1..Len(m) : HasMeta(m[i][1])

\* what the server makes of each statement
InsertEff(t, v) ==
    IF v = <<>> THEN [NoEff EXCEPT !.kind = "syntax"]
    ELSE IF t # TrackedTable THEN NoEff
    ELSE IF ~PlainKeys(v) THEN [NoEff EXCEPT !.kind = "syntax"]
    ELSE [kind |-> "ins", id |-> 0, vals |-> v]

UpdateEff(t, id, v) ==
    IF v = <<>> THEN [NoEff EXCEPT !.kind = "syntax"]
    ELSE IF t # TrackedTable \/ ~PlainKeys(v) THEN NoEff
    ELSE [kind |-> "upd", id |-> id, vals |-> v]

DeleteEff(t, id) ==
    IF t # TrackedTable THEN NoEff ELSE [kind |-> "del", id |-> id, vals |-> <<>>]

\* ------------------------------------------------------------- sequential calls
NoCall == [op |-> "none", db |-> <<>>, outcome |-> "ok", deref |-> FALSE,
           opened |-> 0, sentOn |-> 0, ran |-> FALSE, commitOn |-> 0,
           stmt |-> <<>>, meta |-> FALSE, id |-> 0, vals |-> <<>>]

Callers == {1, 2}
NoCallRec == [op |-> "none", opened |-> 0, mycur |-> 0, sentOn |-> 0, ran |-> FALSE,
              commitOn |-> 0, outcome |-> "none"]

Init ==
    /\ connection = None
    /\ cursor = None
    /\ conns = <<>>
    /\ cursors = <<>>
    /\ srv = [d \in SessionDbs |-> EmptyTable]
    /\ last = NoCall
    /\ pc = [p \in Callers |-> "idle"]
    /\ call = [p \in Callers |-> NoCallRec]

\* a whole call has run: r is what it did
Finish(r, op, dbname, stmt, meta, id, vals) ==
    /\ connection' = r.w.connection
    /\ cursor' = r.w.cursor
    /\ conns' = r.w.conns
    /\ cursors' = r.w.cursors
    /\ srv' = r.w.srv
    /\ last' = [op |-> op, db |-> dbname, outcome |-> r.outcome, deref |-> r.deref,
                opened |-> IF Len(r.w.conns) > Len(conns) THEN Len(r.w.conns) ELSE 0,
                sentOn |-> r.sentOn, ran |-> r.ran, commitOn |-> r.commitOn,
                stmt |-> IF r.sentOn # 0 THEN stmt ELSE <<>>,
                meta |-> meta, id |-> id, vals |-> vals]
    /\ UNCHANGED <<pc, call>>

create_database(in) ==
    \E n \in in.dbs, connOk \in ConnectChoices :
    \E curOk \in After(connOk) : \E execOk \in After(curOk) :
        Finish(MaintOp(World, connOk, curOk, execOk), "create_database", n,
               create_db_query(n), HasMeta(n), 0, <<>>)

list_databases ==
    \E connOk \in ConnectChoices :
    \E curOk \in After(connOk) : \E execOk \in After(curOk) : \E fetchOk \in After(execOk) :
        Finish(MaintOp(World, connOk, curOk, execOk /\ fetchOk), "list_databases", <<>>,
               list_databases_query, FALSE, 0, <<>>)

switch_database ==
    \E d \in SessionDbs, connOk \in ConnectChoices : \E curOk \in After(connOk) :
        Finish([w |-> SwitchDatabaseW(World, d, connOk, curOk),
                outcome |-> IF SwitchOk(connOk, curOk) THEN "ok" ELSE "caught",
                deref |-> FALSE, sentOn |-> 0, ran |-> FALSE, commitOn |-> 0],
               "switch_database", d, <<>>, FALSE, 0, <<>>)

create_table(in) ==
    \E t \in in.tables, cols \in Columns(in.columns), execOk \in BOOLEAN :
    \E commitOk \in After(execOk) :
        Finish(CreateTableW(World, execOk, commitOk), "create_table", <<>>,
               create_table_query(t, cols),
               HasMeta(t) \/ \E i \in 1..Len(cols) : HasMeta(cols[i][1]), 0, <<>>)

add_column(in) ==
    \E d \in SessionDbs, t \in in.tables, c \in in.columns,
       connOk \in ConnectChoices, execOk \in BOOLEAN :
    \E curOk \in After(connOk), commitOk \in After(execOk) :
        Finish(RowOp(World, d, NoEff, connOk, curOk, execOk, commitOk), "add_column", d,
               add_column_query(t, c, TypeInt), HasMeta(t) \/ HasMeta(c), 0, <<>>)

insert_row(in) ==
    \E d \in SessionDbs, t \in in.tables, v \in in.inserts,
       connOk \in ConnectChoices, execOk \in BOOLEAN :
    \E curOk \in After(connOk), commitOk \in After(execOk) :
        Finish(RowOp(World, d, InsertEff(t, v), connOk, curOk, execOk, commitOk),
               "insert_row", d, insert_query(t, v), HasMeta(t) \/ MetaKeys(v), 0, v)

delete_row(in) ==
    \E d \in SessionDbs, t \in in.tables, id \in in.ids,
       connOk \in ConnectChoices, execOk \in BOOLEAN :
    \E curOk \in After(connOk), commitOk \in After(execOk) :
        Finish(RowOp(World, d, DeleteEff(t, id), connOk, curOk, execOk, commitOk),
               "delete_row", d, delete_query(t, id), HasMeta(t), id, <<>>)

update_row(in) ==
    \E d \in SessionDbs, t \in in.tables, id \in in.ids, v \in in.updates,
       connOk \in ConnectChoices, execOk \in BOOLEAN :
    \E curOk \in After(connOk), commitOk \in After(execOk) :
        Finish(RowOp(World, d, UpdateEff(t, id, v), connOk, curOk, execOk, commitOk),
               "update_row", d, update_query(t, id, v), HasMeta(t) \/ MetaKeys(v), id, v)

close_connection ==
    LET c == CloseW(World) IN
    Finish([w |-> c.w, outcome |-> IF c.fault THEN "raised" ELSE "ok", deref |-> c.fault,
            sentOn |-> 0, ran |-> c.w # World, commitOn |-> 0],
           "close_connection", <<>>, <<>>, FALSE, 0, <<>>)

\* The runtime frees a connection object nothing refers to any more, and
\* freeing it closes it.  When that happens is up to the runtime, so it is
\* a step of its own that may or may not be taken.  The facade refers to
\* the stored connection and, through the stored cursor, to the connection
\* that cursor was created from.
Referenced(c) ==
    \/ connection = c
    \/ cursor # None /\ cursors[cursor].conn = c

Reclaim ==
    /\ \E c \in 1..Len(conns) :
         /\ conns[c].open
         /\ ~Referenced(c)
         /\ conns' = ConnClose(conns, c)
    /\ UNCHANGED <<connection, cursor, cursors, srv, last, pc, call>>

\* one caller, every operation, with the names of in
Calls(in) ==
    \/ create_database(in)
    \/ list_databases
    \/ switch_database
    \/ create_table(in)
    \/ add_column(in)
    \/ insert_row(in)
    \/ delete_row(in)
    \/ update_row(in)
    \/ close_connection
    \/ Reclaim

\* the facade's connections and cursors
Next == Calls(PlainInputs)
Spec == Init /\ [][Next]_vars

\* names with SQL metacharacters
NextNames == Calls(MetaInputs)
SpecNames == Init /\ [][NextNames]_vars

\* rows of the tracked table
NextRows ==
    \/ switch_database
    \/ insert_row(RowInputs)
    \/ delete_row(RowInputs)
    \/ update_row(RowInputs)
    \/ close_connection
    \/ Reclaim
SpecRows == Init /\ [][NextRows]_vars

\* ------------------------------------------------------------- two callers
\* Two callers share one facade.  Each makes row operations, caller 1
\* naming database A and caller 2 naming database B.  A call is the
\* handler's statements in order: connect and cursor (switch_database),
\* execute, commit; the other caller may run between any two of them.
CallerDb(p) == IF p = 1 THEN DbA ELSE DbB
RowOps == {"insert_row", "delete_row", "update_row"}

SetWorld(w) ==
    /\ connection' = w.connection
    /\ cursor' = w.cursor
    /\ conns' = w.conns
    /\ cursors' = w.cursors
    /\ srv' = w.srv

\* the caller enters a handler
CBegin(p) ==
    /\ pc[p] = "idle"
    /\ \E op \in RowOps :
         call' = [call EXCEPT ![p] = [NoCallRec EXCEPT !.op = op, !.outcome = "running"]]
    /\ pc' = [pc EXCEPT ![p] = "connect"]
    /\ UNCHANGED <<connection, cursor, conns, cursors, srv, last>>

\* self.connection = psycopg2.connect(dbname=...)
CConnect(p) ==
    /\ pc[p] = "connect"
    /\ \E ok \in ConnectChoices :
         IF ok
         THEN /\ SetWorld(StoreConnection(World, CallerDb(p)))
              /\ call' = [call EXCEPT ![p].opened = Len(conns) + 1]
              /\ pc' = [pc EXCEPT ![p] = "cursor"]
         ELSE /\ pc' = [pc EXCEPT ![p] = "execute"]
              /\ UNCHANGED <<connection, cursor, conns, cursors, srv, call>>
    /\ UNCHANGED last

\* self.cursor = self.connection.cursor()
CCursor(p) ==
    /\ pc[p] = "cursor"
    /\ \E ok \in BOOLEAN :
         IF ok
         THEN /\ SetWorld(StoreCursor(World))
              /\ call' = [call EXCEPT ![p].mycur = Len(cursors) + 1]
         ELSE UNCHANGED <<connection, cursor, conns, cursors, srv, call>>
    /\ pc' = [pc EXCEPT ![p] = "execute"]
    /\ UNCHANGED last

\* execute on the cursor the caller created itself, not on the stored one
CExecuteOwn(p) ==
    /\ pc[p] = "execute"
    /\ \E ok \in BOOLEAN :
         LET own == IF call[p].mycur # 0 THEN call[p].mycur ELSE cursor
             e == ExecStep([World EXCEPT !.cursor = own], NoEff, ok)
         IN
         /\ SetWorld([e.w EXCEPT !.cursor = cursor])
         /\ call' = [call EXCEPT ![p].sentOn = e.sentOn,
                                 ![p].ran = e.status = "ok",
                                 ![p].outcome = IF e.status = "ok" THEN @ ELSE "caught"]
         /\ pc' = [pc EXCEPT ![p] = IF e.status = "ok" THEN "commit" ELSE "idle"]
    /\ UNCHANGED last

\* self.cursor.execute(query)
CExecute(p) ==
    /\ pc[p] = "execute"
    /\ \E ok \in BOOLEAN :
         LET e == ExecStep(World, NoEff, ok) IN
         /\ SetWorld(e.w)
         /\ call' = [call EXCEPT ![p].sentOn = e.sentOn,
                                 ![p].ran = e.status = "ok",
                                 ![p].outcome = IF e.status = "ok" THEN @ ELSE "caught"]
         /\ pc' = [pc EXCEPT ![p] = IF e.status = "ok" THEN "commit" ELSE "idle"]
    /\ UNCHANGED last

\* self.connection.commit()
CCommit(p) ==
    /\ pc[p] = "commit"
    /\ \E ok \in BOOLEAN :
         LET c == CommitStep(World, ok) IN
         /\ SetWorld(c.w)
         /\ call' = [call EXCEPT ![p].commitOn = c.on,
                                 ![p].outcome = IF c.status = "ok" THEN "ok" ELSE "caught"]
    /\ pc' = [pc EXCEPT ![p] = "idle"]
    /\ UNCHANGED last

NextConc ==
    \E p \in Callers :
        \/ CBegin(p)
        \/ CConnect(p)
        \/ CCursor(p)
        \/ CExecute(p)
        \/ CCommit(p)
        \/ Reclaim

SpecConc == Init /\ [][NextConc]_vars

\* ------------------------------------------------------------- claims
SessionOps == {"create_table", "add_column", "insert_row", "delete_row", "update_row"}
SwitchingOps == {"add_column", "insert_row", "delete_row", "update_row"}

\* a switch_database, called directly or by a handler, has succeeded
EverSwitched ==
    \E k \in 1..Len(cursors) : conns[cursors[k].conn].kind = "session"

OpenSessions == {c \in 1..Len(conns) : conns[c].kind = "session" /\ conns[c].open}

\* C1: a session-scoped operation on a facade no switch_database has
\* succeeded on (its own internal switch included) ends with the
\* not-connected outcome: no statement is sent, no None is dereferenced,
\* and the stored connection and cursor are still unset.
C1_NotConnectedFailsCleanly ==
    (last.op \in SessionOps /\ ~EverSwitched) =>
        /\ last.outcome = "not_connected"
        /\ last.sentOn = 0
        /\ ~last.deref
        /\ connection = None
        /\ cursor = None

\* C2: at most one session connection is open at any time, because
\* switch_database closes the one it replaces.
C2_AtMostOneOpenSession == Cardinality(OpenSessions) <= 1

\* C3: after create_database or list_databases has ended, no connection
\* and no cursor it opened is still open.
C3_MaintenanceReleased ==
    /\ \A c \in 1..Len(conns) : conns[c].kind = "maint" => ~conns[c].open
    /\ \A k \in 1..Len(cursors) :
           conns[cursors[k].conn].kind = "maint" => cursors[k].closed

\* C4: no call propagates an exception to its caller.
C4_NothingPropagates == last.outcome # "raised"

\* C5: close_connection never faults, a second close_connection changes
\* nothing the first one left, and on a facade holding nothing it changes
\* nothing at all.
C5_CloseIdempotent ==
    LET once == CloseW(World)
        twice == CloseW(once.w)
    IN  /\ ~once.fault
        /\ ~twice.fault
        /\ twice.w = once.w
        /\ (connection = None /\ cursor = None) => once.w = World
        /\ last.op = "close_connection" =>
               /\ last.outcome = "ok"
               /\ once.w = World
               /\ connection # None => ~conns[connection].open
               /\ cursor # None => cursors[cursor].closed

\* C5 witness: close_connection was called on a facade whose stored
\* connection and cursor an earlier close_connection had already closed.
C5_ClosedTwice ==
    /\ last.op = "close_connection"
    /\ ~last.ran
    /\ connection # None
    /\ cursor # None
    /\ ~conns[connection].open
    /\ cursors[cursor].closed

\* C6: a statement executed by add_column, insert_row, delete_row or
\* update_row called with database D runs on the connection that call
\* opened to D.
C6_RunsOnOwnConnection ==
    (last.op \in SwitchingOps /\ last.ran) =>
        /\ last.sentOn = last.opened
        /\ conns[last.sentOn].db = last.db

\* C7: a call given a database, table or column name with an SQL
\* metacharacter is rejected before any statement is sent to the server,
\* and no statement that is sent carries a metacharacter of a name outside
\* quotes.
C7_MetaNamesRejected ==
    /\ last.meta => last.sentOn = 0
    /\ last.sentOn # 0 => InjectionFree(last.stmt)

\* C8: an update_row(db, t, i, u) that succeeds on an existing row i of db
\* leaves the committed row i with u's value in every column of u and its
\* former value in every other column, and changes nothing else.
C8_UpdateIsVisible ==
    [][(/\ last'.op = "update_row"
        /\ last'.outcome = "ok"
        /\ srv[last'.db].rows[last'.id].present)
       => srv' = [srv EXCEPT ![last'.db].rows[last'.id] =
                     [present |-> TRUE,
                      a |-> Lookup(last'.vals, ColA, @.a),
                      b |-> Lookup(last'.vals, ColB, @.b)]]]_vars

\* C9: the stored connection and cursor are both unset, or both set with
\* the cursor created from the stored connection.
C9_PairConsistent ==
    \/ connection = None /\ cursor = None
    \/ /\ connection # None
       /\ cursor # None
       /\ cursors[cursor].conn = connection

\* C10: with two callers on one facade, each statement runs on the
\* connection of whatever cursor is stored when the execute step runs, and
\* each commit goes to whatever connection is stored when the commit step
\* runs, whichever caller stored them.
C10_StepsUseSharedSession ==
    [][\A p \in Callers :
         /\ (pc[p] = "execute" /\ pc'[p] = "commit") =>
                (cursor # None /\ call'[p].sentOn = cursors[cursor].conn)
         /\ (pc[p] = "commit" /\ call'[p].outcome = "ok") =>
                (connection # None /\ call'[p].commitOn = connection)]_vars

\* C10 witness: a caller whose own switch succeeded (it opened a connection
\* to its database and stored a cursor created from it) has its statement
\* executed on a connection the other caller opened to the other database.
C10_CrossedStatement ==
    \E p \in Callers :
        /\ call[p].opened # 0
        /\ call[p].mycur # 0
        /\ cursors[call[p].mycur].conn = call[p].opened
        /\ call[p].ran
        /\ call[p].sentOn # call[p].opened
        /\ conns[call[p].sentOn].db # CallerDb(p)

====
